---- MODULE Spec2Model ----
(***************************************************************************)
(* Model of src/controller/controller.rs: the Controller handle, a         *)
(* reference-counted (Arc) handle to one mutex-protected ws2811_t record,  *)
(* its operations and its Drop implementation.                             *)
(*                                                                         *)
(* Every handle is used by its own thread.  A handle's position is pc[h]:  *)
(* "unborn" (not yet made by clone), "idle" (between calls), the name of   *)
(* the call whose critical section it is in (its MutexGuard is live), or   *)
(* "dropped".  A call blocked in Mutex::lock is an idle handle whose Lock  *)
(* action is not enabled.  A call's arguments and what the driver answers  *)
(* are local to the call; they are drawn where the call uses them.         *)
(*                                                                         *)
(* Spec is the program under callers that pass channel indices in range;   *)
(* FaultSpec adds the calls with an index out of range and what follows    *)
(* from the panic they raise.                                              *)
(***************************************************************************)
EXTENDS Integers, Sequences, FiniteSets, TLC

\* Bounds of the model: handles (threads) and LEDs of the strip.
MaxHandles == 2
MaxLeds == 2

\* Length of the ws2811_t channel array (a fixed-size array of the bindings).
NumChannels == 2

Handles == 1 .. MaxHandles
\* Arc allocations: Controller::new makes allocation 1.
Recs == 1 .. MaxHandles
Chans == 0 .. (NumChannels - 1)
Addrs == 0 .. (MaxLeds - 1)
\* Sample RawColor values, u8 brightness values and ws2811_return_t codes
\* (0 is WS2811_SUCCESS, the negative codes are failures).
Colors == {0, 1}
ByteSamples == {0, 255}
DriverStatus == {0, -1, -2}
DefaultBrightness == 255
\* The calls that take the lock with lock().unwrap(), by the borrow they need.
SharedOps == {"channels", "brightness", "leds"}
MutOps == {"render", "wait", "set_brightness", "leds_mut"}

VARIABLES
  arc,        \* arc[h]: the allocation handle h points to (c_struct)
  pc,         \* pc[h]: position of handle h
  view,       \* view[h]: the slice handle h borrowed through leds/leds_mut
  ncall,      \* ncall[h]: driver calls made by the call h is in
  ret,        \* the call the step just taken completed, if it completed
              \* one: [op, by: the handle, arg: its arguments (for render
              \* and wait, the code the driver returned), kind and val:
              \* its result]
  strong,     \* strong[r]: Arc strong count of allocation r
  mutex,      \* mutex[r]: [locked, poisoned] of the Mutex of allocation r
  channel,    \* channel[r][c]: [count, brightness, leds] of the record
  mem,        \* mem[a]: the driver-owned colour memory
  finiCalls,  \* finiCalls[r]: ws2811_fini calls made on record r (history)
  count0      \* count0[r][c]: count of channel c at construction (history)

hvars == <<arc, pc, view, ncall>>
rvars == <<strong, mutex, channel, mem>>
gvars == <<finiCalls, count0>>
vars == <<arc, pc, view, ncall, ret, strong, mutex, channel, mem,
          finiCalls, count0>>

----------------------------------------------------------------------------
\* Values.

NoView == [kind |-> "none", chan |-> 0, ptr |-> 0, len |-> 0]
NoRet == [op |-> "none", by |-> 0, arg |-> <<>>, kind |-> "none", val |-> <<>>]
Panic(h, op) == [op |-> op, by |-> h, arg |-> <<>>, kind |-> "panic", val |-> <<>>]
NoChannel == [count |-> 0, brightness |-> 0, leds |-> 0]

\* From<ws2811_return_t> for Result<()>: success is Ok, any other code is
\* the error of that code.
FromStatus(s) ==
  IF s = 0 THEN [kind |-> "ok", val |-> <<>>] ELSE [kind |-> "err", val |-> <<s>>]

RECURSIVE SumCounts(_, _)
SumCounts(cnt, c) == IF c = 0 THEN 0 ELSE cnt[c - 1] + SumCounts(cnt, c - 1)

\* The record the Builder hands to Controller::new: channel c has cnt[c]
\* LEDs and its own buffer of cnt[c] colours; the buffers are disjoint.
BuiltRecord(cnt) ==
  [c \in Chans |-> [count |-> cnt[c], brightness |-> DefaultBrightness,
                    leds |-> SumCounts(cnt, c)]]

Configs == {cnt \in [Chans -> 0 .. MaxLeds] : SumCounts(cnt, NumChannels) = MaxLeds}

----------------------------------------------------------------------------
\* Controller::new: one handle, one allocation (Arc::new(Mutex::new(..))).

Init ==
  \E cnt \in Configs :
    /\ arc = [h \in Handles |-> IF h = 1 THEN 1 ELSE 0]
    /\ pc = [h \in Handles |-> IF h = 1 THEN "idle" ELSE "unborn"]
    /\ view = [h \in Handles |-> NoView]
    /\ ncall = [h \in Handles |-> 0]
    /\ ret = NoRet
    /\ strong = [r \in Recs |-> IF r = 1 THEN 1 ELSE 0]
    /\ mutex = [r \in Recs |-> [locked |-> FALSE, poisoned |-> FALSE]]
    /\ channel = [r \in Recs |-> IF r = 1 THEN BuiltRecord(cnt)
                                          ELSE [c \in Chans |-> NoChannel]]
    /\ mem = [a \in Addrs |-> 0]
    /\ finiCalls = [r \in Recs |-> 0]
    /\ count0 = [r \in Recs |-> [c \in Chans |-> IF r = 1 THEN cnt[c] ELSE 0]]

----------------------------------------------------------------------------
\* The Mutex.

\* Mutex::lock returns only when the mutex is not held; unwrap() returns
\* the guard only when the mutex is not poisoned.
CanLockNoWait(r) == ~mutex[r].poisoned
CanLock(r) == ~mutex[r].locked /\ ~mutex[r].poisoned

Locked(r) == [mutex EXCEPT ![r].locked = TRUE]
\* The MutexGuard goes out of scope.
Unlocked(r) == [mutex EXCEPT ![r].locked = FALSE]
PoisonedNot(r) == [mutex EXCEPT ![r] = [locked |-> FALSE, poisoned |-> FALSE]]
\* The MutexGuard goes out of scope while its thread panics.
Poisoned(r) == [mutex EXCEPT ![r] = [locked |-> FALSE, poisoned |-> TRUE]]

\* What a call needs of its handle: &mut self needs it unborrowed, &self
\* needs it not mutably borrowed.
CanBorrowMut(h) == pc[h] = "idle" /\ view[h].kind = "none"
CanBorrow(h) == pc[h] = "idle" /\ view[h].kind # "mut"

----------------------------------------------------------------------------
\* #[derive(Clone)]: Arc::clone, the new handle points to the same allocation.

Unborn == {h \in Handles : pc[h] = "unborn"}
NextHandle == CHOOSE h \in Unborn : \A g \in Unborn : h <= g
FreeRec == CHOOSE q \in Recs : strong[q] = 0 /\ \A p \in Recs : strong[p] = 0 => q <= p

CloneDeep(h) ==
  /\ CanBorrow(h)
  /\ Unborn # {}
  /\ pc' = [pc EXCEPT ![NextHandle] = "idle"]
  /\ arc' = [arc EXCEPT ![NextHandle] = FreeRec]
  /\ strong' = [strong EXCEPT ![FreeRec] = 1]
  /\ channel' = [channel EXCEPT ![FreeRec] = channel[arc[h]]]
  /\ count0' = [count0 EXCEPT ![FreeRec] = count0[arc[h]]]
  /\ ret' = NoRet
  /\ UNCHANGED <<view, ncall, mutex, mem, finiCalls>>

Clone(h) ==
  /\ CanBorrow(h)
  /\ Unborn # {}
  /\ pc' = [pc EXCEPT ![NextHandle] = "idle"]
  /\ arc' = [arc EXCEPT ![NextHandle] = arc[h]]
  /\ strong' = [strong EXCEPT ![arc[h]] = @ + 1]
  /\ ret' = NoRet
  /\ UNCHANGED <<view, ncall, mutex, channel, mem, gvars>>

----------------------------------------------------------------------------
\* render(&mut self)

\* let mut lock = self.c_struct.lock().unwrap(); ws2811_render(&mut *lock)
\* is entered.
RenderLock(h) ==
  /\ CanBorrowMut(h)
  /\ CanLock(arc[h])
  /\ mutex' = Locked(arc[h])
  /\ pc' = [pc EXCEPT ![h] = "render"]
  /\ ncall' = [ncall EXCEPT ![h] = @ + 1]
  /\ ret' = NoRet
  /\ UNCHANGED <<arc, view, strong, channel, mem, gvars>>

\* match result { Ok(_) => Ok(()), Err(e) => return Err(e) }
RenderMatchSwallow(result) == [kind |-> "ok", val |-> <<>>]
RenderMatch(result) ==
  IF result.kind = "ok" THEN [kind |-> "ok", val |-> <<>>]
                        ELSE [kind |-> "err", val |-> result.val]

\* ws2811_render returns code s (the driver leaves count, brightness, the
\* buffer pointers and the buffers as they are), the result is matched and
\* returned, the guard is dropped.
RenderReturnKeepsGuardOnErr(h, s) ==
  LET result == RenderMatch(FromStatus(s))
  IN /\ pc[h] = "render"
     /\ ret' = [op |-> "render", by |-> h, arg |-> <<s>>, kind |-> result.kind, val |-> result.val]
     /\ mutex' = IF result.kind = "ok" THEN Unlocked(arc[h]) ELSE mutex
     /\ pc' = [pc EXCEPT ![h] = "idle"]
     /\ ncall' = [ncall EXCEPT ![h] = 0]
     /\ UNCHANGED <<arc, view, strong, channel, mem, gvars>>

RenderReturn(h, s) ==
  LET result == RenderMatch(FromStatus(s))
  IN /\ pc[h] = "render"
     /\ ret' = [op |-> "render", by |-> h, arg |-> <<s>>, kind |-> result.kind, val |-> result.val]
     /\ mutex' = Unlocked(arc[h])
     /\ pc' = [pc EXCEPT ![h] = "idle"]
     /\ ncall' = [ncall EXCEPT ![h] = 0]
     /\ UNCHANGED <<arc, view, strong, channel, mem, gvars>>

----------------------------------------------------------------------------
\* wait(&mut self)

WaitLock(h) ==
  /\ CanBorrowMut(h)
  /\ CanLock(arc[h])
  /\ mutex' = Locked(arc[h])
  /\ pc' = [pc EXCEPT ![h] = "wait"]
  /\ ncall' = [ncall EXCEPT ![h] = @ + 1]
  /\ ret' = NoRet
  /\ UNCHANGED <<arc, view, strong, channel, mem, gvars>>

WaitMatch(result) ==
  IF result.kind = "ok" THEN [kind |-> "ok", val |-> <<>>]
                        ELSE [kind |-> "err", val |-> result.val]

WaitReturn(h, s) ==
  LET result == WaitMatch(FromStatus(s))
  IN /\ pc[h] = "wait"
     /\ ret' = [op |-> "wait", by |-> h, arg |-> <<s>>, kind |-> result.kind, val |-> result.val]
     /\ mutex' = Unlocked(arc[h])
     /\ pc' = [pc EXCEPT ![h] = "idle"]
     /\ ncall' = [ncall EXCEPT ![h] = 0]
     /\ UNCHANGED <<arc, view, strong, channel, mem, gvars>>

----------------------------------------------------------------------------
\* channels(&self)

ChannelsLock(h) ==
  /\ CanBorrow(h)
  /\ CanLock(arc[h])
  /\ mutex' = Locked(arc[h])
  /\ pc' = [pc EXCEPT ![h] = "channels"]
  /\ ret' = NoRet
  /\ UNCHANGED <<arc, view, ncall, strong, channel, mem, gvars>>

\* .filter(|&x| lock.channel[x].count > 0)
KeepAll(cfg) == cfg.count >= 0
Keep(cfg) == cfg.count > 0

\* (0..lock.channel.len()).filter(..).collect()
RECURSIVE FilterFrom(_, _)
FilterFrom(rec, x) ==
  IF x >= NumChannels THEN <<>>
  ELSE (IF Keep(rec[x]) THEN <<x>> ELSE <<>>) \o FilterFrom(rec, x + 1)

ChannelsReturn(h) ==
  /\ pc[h] = "channels"
  /\ ret' = [op |-> "channels", by |-> h, arg |-> <<>>, kind |-> "vec",
             val |-> FilterFrom(channel[arc[h]], 0)]
  /\ mutex' = Unlocked(arc[h])
  /\ pc' = [pc EXCEPT ![h] = "idle"]
  /\ UNCHANGED <<arc, view, ncall, strong, channel, mem, gvars>>

----------------------------------------------------------------------------
\* brightness(&self, channel)

BrightnessLock(h) ==
  /\ CanBorrow(h)
  /\ CanLock(arc[h])
  /\ mutex' = Locked(arc[h])
  /\ pc' = [pc EXCEPT ![h] = "brightness"]
  /\ ret' = NoRet
  /\ UNCHANGED <<arc, view, ncall, strong, channel, mem, gvars>>

\* lock.channel[channel].brightness
BrightnessOfFirst(rec, c) == rec[0].brightness
BrightnessOf(rec, c) == rec[c].brightness

BrightnessReturn(h, c) ==
  /\ pc[h] = "brightness"
  /\ c \in Chans
  /\ ret' = [op |-> "brightness", by |-> h, arg |-> <<c>>, kind |-> "u8",
             val |-> <<BrightnessOf(channel[arc[h]], c)>>]
  /\ mutex' = Unlocked(arc[h])
  /\ pc' = [pc EXCEPT ![h] = "idle"]
  /\ UNCHANGED <<arc, view, ncall, strong, channel, mem, gvars>>

----------------------------------------------------------------------------
\* set_brightness(&mut self, channel, value)

SetBrightnessLock(h) ==
  /\ CanBorrowMut(h)
  /\ CanLock(arc[h])
  /\ mutex' = Locked(arc[h])
  /\ pc' = [pc EXCEPT ![h] = "set_brightness"]
  /\ ret' = NoRet
  /\ UNCHANGED <<arc, view, ncall, strong, channel, mem, gvars>>

\* lock.channel[channel].brightness = value
WithBrightnessAll(rec, c, v) == [x \in Chans |-> [rec[x] EXCEPT !.brightness = v]]
WithBrightness(rec, c, v) == [rec EXCEPT ![c].brightness = v]

SetBrightnessReturn(h, c, v) ==
  /\ pc[h] = "set_brightness"
  /\ c \in Chans
  /\ channel' = [channel EXCEPT ![arc[h]] = WithBrightness(@, c, v)]
  /\ ret' = [op |-> "set_brightness", by |-> h, arg |-> <<c, v>>, kind |-> "unit",
             val |-> <<>>]
  /\ mutex' = Unlocked(arc[h])
  /\ pc' = [pc EXCEPT ![h] = "idle"]
  /\ UNCHANGED <<arc, view, ncall, strong, mem, finiCalls, count0>>

----------------------------------------------------------------------------
\* leds(&self, channel) and leds_mut(&mut self, channel): the slice is made
\* under the guard and outlives it.  The handle stays borrowed while the
\* slice is live: view[h].

\* (the model keeps one slice per handle: a handle takes a slice only when
\* it holds none)
LedsLock(h) ==
  /\ pc[h] = "idle" /\ view[h].kind = "none"
  /\ CanLock(arc[h])
  /\ mutex' = Locked(arc[h])
  /\ pc' = [pc EXCEPT ![h] = "leds"]
  /\ ret' = NoRet
  /\ UNCHANGED <<arc, view, ncall, strong, channel, mem, gvars>>

\* from_raw_parts(lock.channel[channel].leds, lock.channel[channel].count)
LedsSliceLong(rec, c) ==
  [kind |-> "shared", chan |-> c, ptr |-> rec[c].leds, len |-> rec[c].count + 1]
LedsSlice(rec, c) ==
  [kind |-> "shared", chan |-> c, ptr |-> rec[c].leds, len |-> rec[c].count]

LedsReturn(h, c) ==
  /\ pc[h] = "leds"
  /\ c \in Chans
  /\ view' = [view EXCEPT ![h] = LedsSlice(channel[arc[h]], c)]
  /\ ret' = NoRet
  /\ mutex' = Unlocked(arc[h])
  /\ pc' = [pc EXCEPT ![h] = "idle"]
  /\ UNCHANGED <<arc, ncall, strong, channel, mem, gvars>>

LedsMutLock(h) ==
  /\ CanBorrowMut(h)
  /\ CanLock(arc[h])
  /\ mutex' = Locked(arc[h])
  /\ pc' = [pc EXCEPT ![h] = "leds_mut"]
  /\ ret' = NoRet
  /\ UNCHANGED <<arc, view, ncall, strong, channel, mem, gvars>>

\* from_raw_parts_mut(lock.channel[channel].leds, lock.channel[channel].count)
LedsMutSliceFirst(rec, c) ==
  [kind |-> "mut", chan |-> c, ptr |-> rec[0].leds, len |-> rec[c].count]
LedsMutSlice(rec, c) ==
  [kind |-> "mut", chan |-> c, ptr |-> rec[c].leds, len |-> rec[c].count]

LedsMutReturnHoldsGuard(h, c) ==
  /\ pc[h] = "leds_mut"
  /\ c \in Chans
  /\ view' = [view EXCEPT ![h] = LedsMutSlice(channel[arc[h]], c)]
  /\ ret' = NoRet
  /\ pc' = [pc EXCEPT ![h] = "idle"]
  /\ UNCHANGED <<arc, ncall, strong, mutex, channel, mem, gvars>>

LedsMutReturn(h, c) ==
  /\ pc[h] = "leds_mut"
  /\ c \in Chans
  /\ view' = [view EXCEPT ![h] = LedsMutSlice(channel[arc[h]], c)]
  /\ ret' = NoRet
  /\ mutex' = Unlocked(arc[h])
  /\ pc' = [pc EXCEPT ![h] = "idle"]
  /\ UNCHANGED <<arc, ncall, strong, channel, mem, gvars>>

----------------------------------------------------------------------------
\* The caller's use of a slice: element i of the slice is the colour at
\* address ptr + i.  No lock is involved.  An element outside the driver's
\* memory reads as any colour.

\* let x = slice[i]
ViewRead(h, i) ==
  /\ pc[h] = "idle" /\ view[h].kind # "none"
  /\ i < view[h].len
  /\ \E x \in (IF view[h].ptr + i \in Addrs THEN {mem[view[h].ptr + i]} ELSE Colors) :
       ret' = [op |-> "read", by |-> h, arg |-> <<i>>, kind |-> "color", val |-> <<x>>]
  /\ UNCHANGED <<hvars, rvars, gvars>>

\* slice[i] = x
ViewWrite(h, i, x) ==
  /\ pc[h] = "idle" /\ view[h].kind = "mut"
  /\ i < view[h].len
  /\ mem' = IF view[h].ptr + i \in Addrs THEN [mem EXCEPT ![view[h].ptr + i] = x]
                                          ELSE mem
  /\ ret' = [op |-> "write", by |-> h, arg |-> <<i, x>>, kind |-> "unit", val |-> <<>>]
  /\ UNCHANGED <<hvars, strong, mutex, channel, gvars>>

\* The slice goes out of scope.
ViewRelease(h) ==
  /\ pc[h] = "idle" /\ view[h].kind # "none"
  /\ view' = [view EXCEPT ![h] = NoView]
  /\ ret' = NoRet
  /\ UNCHANGED <<arc, pc, ncall, rvars, gvars>>

----------------------------------------------------------------------------
\* impl Drop for Controller, followed by the drop of the field c_struct.

\* The Arc is dropped: the strong count goes down by one (the allocation is
\* freed when it reaches 0).
ArcDrop(h) == [strong EXCEPT ![arc[h]] = @ - 1]

\* let mut lock = self.c_struct.lock().unwrap(); ws2811_fini(&mut *lock) is
\* entered.
DropLockNoWait(h) ==
  /\ CanBorrowMut(h)
  /\ ~mutex[arc[h]].poisoned
  /\ pc' = [pc EXCEPT ![h] = "drop"]
  /\ finiCalls' = [finiCalls EXCEPT ![arc[h]] = @ + 1]
  /\ ret' = NoRet
  /\ UNCHANGED <<arc, view, ncall, strong, mutex, channel, mem, count0>>

DropLockNoFini(h) ==
  /\ CanBorrowMut(h)
  /\ CanLock(arc[h])
  /\ mutex' = Locked(arc[h])
  /\ pc' = [pc EXCEPT ![h] = "drop"]
  /\ ret' = NoRet
  /\ UNCHANGED <<arc, view, ncall, strong, channel, mem, finiCalls, count0>>

DropLock(h) ==
  /\ CanBorrowMut(h)
  /\ CanLock(arc[h])
  /\ mutex' = Locked(arc[h])
  /\ pc' = [pc EXCEPT ![h] = "drop"]
  /\ finiCalls' = [finiCalls EXCEPT ![arc[h]] = @ + 1]
  /\ ret' = NoRet
  /\ UNCHANGED <<arc, view, ncall, strong, channel, mem, count0>>

\* ws2811_fini returns (the driver leaves count, brightness, the buffer
\* pointers and the buffers as they are), the guard and then the Arc are
\* dropped.
DropReturn(h) ==
  /\ pc[h] = "drop"
  /\ mutex' = Unlocked(arc[h])
  /\ pc' = [pc EXCEPT ![h] = "dropped"]
  /\ strong' = ArcDrop(h)
  /\ ret' = NoRet
  /\ UNCHANGED <<arc, view, ncall, channel, mem, gvars>>

----------------------------------------------------------------------------
\* Faults.

\* The calls that index lock.channel with their argument, and sample
\* indices past the end of the array.
IndexedOps == {"brightness", "set_brightness", "leds", "leds_mut"}
BadIndices == NumChannels .. (NumChannels + 1)

IndexUnchecked(h, c) ==
  /\ pc[h] \in IndexedOps
  /\ c >= NumChannels
  /\ ret' = [op |-> pc[h], by |-> h, arg |-> <<c>>, kind |-> "u8",
             val |-> <<channel[arc[h]][c % NumChannels].brightness>>]
  /\ mutex' = Unlocked(arc[h])
  /\ pc' = [pc EXCEPT ![h] = "idle"]
  /\ UNCHANGED <<arc, view, ncall, strong, channel, mem, gvars>>

\* lock.channel[channel] with channel >= lock.channel.len(): the bounds
\* check panics while the guard is live, the guard poisons the mutex.
IndexPanics(h, c) ==
  /\ pc[h] \in IndexedOps
  /\ c >= NumChannels
  /\ ret' = [op |-> pc[h], by |-> h, arg |-> <<c>>, kind |-> "panic", val |-> <<>>]
  /\ mutex' = Poisoned(arc[h])
  /\ pc' = [pc EXCEPT ![h] = "idle"]
  /\ UNCHANGED <<arc, view, ncall, strong, channel, mem, gvars>>

\* lock().unwrap() on a poisoned mutex, in any call but drop: the guard
\* inside the error is dropped and the call panics.
LockPanics(h, op) ==
  /\ IF op \in MutOps THEN CanBorrowMut(h) ELSE CanBorrow(h)
  /\ ~mutex[arc[h]].locked
  /\ mutex[arc[h]].poisoned
  /\ ret' = Panic(h, op)
  /\ UNCHANGED <<hvars, rvars, gvars>>

\* lock().unwrap() on a poisoned mutex in drop: the panic leaves drop before
\* ws2811_fini, the field c_struct is dropped while unwinding.
DropPanics(h) ==
  /\ CanBorrowMut(h)
  /\ ~mutex[arc[h]].locked
  /\ mutex[arc[h]].poisoned
  /\ ret' = Panic(h, "drop")
  /\ pc' = [pc EXCEPT ![h] = "dropped"]
  /\ strong' = ArcDrop(h)
  /\ UNCHANGED <<arc, view, ncall, mutex, channel, mem, gvars>>

----------------------------------------------------------------------------
Next ==
  \/ \E h \in Handles : Clone(h)
  \/ \E h \in Handles : RenderLock(h)
  \/ \E h \in Handles, s \in DriverStatus : RenderReturn(h, s)
  \/ \E h \in Handles : WaitLock(h)
  \/ \E h \in Handles, s \in DriverStatus : WaitReturn(h, s)
  \/ \E h \in Handles : ChannelsLock(h)
  \/ \E h \in Handles : ChannelsReturn(h)
  \/ \E h \in Handles : BrightnessLock(h)
  \/ \E h \in Handles, c \in Chans : BrightnessReturn(h, c)
  \/ \E h \in Handles : SetBrightnessLock(h)
  \/ \E h \in Handles, c \in Chans, v \in ByteSamples : SetBrightnessReturn(h, c, v)
  \/ \E h \in Handles : LedsLock(h)
  \/ \E h \in Handles, c \in Chans : LedsReturn(h, c)
  \/ \E h \in Handles : LedsMutLock(h)
  \/ \E h \in Handles, c \in Chans : LedsMutReturn(h, c)
  \/ \E h \in Handles, i \in Addrs : ViewRead(h, i)
  \/ \E h \in Handles, i \in Addrs, x \in Colors : ViewWrite(h, i, x)
  \/ \E h \in Handles : ViewRelease(h)
  \/ \E h \in Handles : DropLock(h)
  \/ \E h \in Handles : DropReturn(h)

Spec == Init /\ [][Next]_vars

\* Progress.  A thread inside a critical section keeps running (every driver
\* call returns), and a thread whose lock() can succeed again and again is
\* not passed over forever (fair scheduling of the lock).
LockEntry(h) ==
  \/ RenderLock(h) \/ WaitLock(h) \/ ChannelsLock(h) \/ BrightnessLock(h)
  \/ SetBrightnessLock(h) \/ LedsLock(h) \/ LedsMutLock(h) \/ DropLock(h)

SectionExit(h) ==
  \/ \E s \in DriverStatus : RenderReturn(h, s) \/ WaitReturn(h, s)
  \/ ChannelsReturn(h)
  \/ \E c \in Chans : BrightnessReturn(h, c) \/ LedsReturn(h, c) \/ LedsMutReturn(h, c)
  \/ \E c \in Chans, v \in ByteSamples : SetBrightnessReturn(h, c, v)
  \/ DropReturn(h)

LiveSpec ==
  /\ Init /\ [][Next]_vars
  /\ \A h \in Handles : WF_vars(SectionExit(h))
  /\ \A h \in Handles : SF_vars(LockEntry(h))

FaultNext ==
  \/ Next
  \/ \E h \in Handles, c \in BadIndices : IndexPanics(h, c)
  \/ \E h \in Handles, op \in SharedOps \cup MutOps : LockPanics(h, op)
  \/ \E h \in Handles : DropPanics(h)

FaultSpec == Init /\ [][FaultNext]_vars

----------------------------------------------------------------------------
\* Vocabulary of the claims.

Live(h) == pc[h] \notin {"unborn", "dropped"}
\* The driver calls render and wait are in flight inside these sections.
DriverSections == {"render", "wait"}
\* The critical sections of the record-level calls.
RecordSections ==
  {"render", "wait", "channels", "brightness", "set_brightness", "leds", "leds_mut"}
InSection(r, S) == {h \in Handles : arc[h] = r /\ pc[h] \in S}
\* The address of element i of channel c's buffer in record r.
Cell(r, c, i) == channel[r][c].leds + i
Elems(r) == {e \in Chans \X Addrs : e[2] < channel[r][e[1]].count}
\* The sections that hold the MutexGuard of the record: those of the
\* record-level calls and that of drop.
GuardSections == RecordSections \cup {"drop"}
Range(q) == {q[k] : k \in 1 .. Len(q)}
Ascending(q) == \A j, k \in 1 .. Len(q) : j < k => q[j] < q[k]

----------------------------------------------------------------------------
\* C1: for any number of handles sharing one record and any order of their
\* destruction, ws2811_fini is invoked exactly once for the record, and only
\* by the destruction of the last live handle (the strong count is 1 while
\* a handle is inside fini).
C1_FinalizeOnceAtLastDrop ==
  \A r \in Recs :
    /\ finiCalls[r] <= 1
    /\ \A h \in Handles : (arc[h] = r /\ pc[h] = "drop") => strong[r] = 1
    /\ \A h \in Handles :
         (arc[h] = r /\ pc[h] = "dropped" /\ strong[r] = 0) => finiCalls[r] = 1

\* C2: no render or wait driver call and no brightness/channels/leds/leds_mut
\* access is made on a record after ws2811_fini has been invoked on it.
C2_NothingAfterFinalize ==
  \A h \in Handles :
    pc[h] \in {"render", "wait", "channels", "brightness", "leds", "leds_mut"}
      => finiCalls[arc[h]] = 0

\* C3: at most one of render, wait, brightness, set_brightness, channels,
\* leds and leds_mut is inside its critical section on a record at any time;
\* in particular two driver calls on one record never overlap.
C3_MutualExclusion ==
  \A r \in Recs :
    /\ Cardinality(InSection(r, RecordSections)) <= 1
    /\ Cardinality(InSection(r, DriverSections)) <= 1
    /\ (InSection(r, RecordSections) # {} => mutex[r].locked)

\* A handle is inside render while another live handle of the same record
\* is between calls (whatever it calls next has to wait).
C3_Witness ==
  \E h, g \in Handles :
    /\ h # g /\ arc[h] = arc[g]
    /\ pc[h] = "render" /\ pc[g] = "idle" /\ mutex[arc[h]].locked

\* C4: ws2811_fini never runs while a render or wait driver call of another
\* handle is in flight on the same record, and a drop enters ws2811_fini only
\* from a state in which no such call is in flight (it blocks until then).
C4_NoFiniDuringDriverCall ==
  /\ [](\A h, g \in Handles :
          (pc[h] = "drop" /\ arc[g] = arc[h]) => pc[g] \notin DriverSections)
  /\ [][finiCalls' # finiCalls =>
          \A h \in Handles :
            (pc[h] = "idle" /\ pc'[h] = "drop")
              => /\ InSection(arc[h], DriverSections) = {}
                 /\ ~mutex[arc[h]].locked]_vars

\* A drop is inside ws2811_fini while another handle of the record is live
\* and between calls (its render and wait have to wait).
C4_Witness ==
  \E h, g \in Handles :
    /\ h # g /\ arc[h] = arc[g]
    /\ pc[h] = "drop" /\ pc[g] = "idle" /\ mutex[arc[h]].locked

\* C5: each render (wait) call makes exactly one ws2811_render (ws2811_wait)
\* call and returns what that call reported: Ok for success, otherwise the
\* error of the same code; there is no retry and no second driver call.
C5_DriverResultPropagated ==
  /\ \A h \in Handles : ncall[h] = IF pc[h] \in DriverSections THEN 1 ELSE 0
  /\ ret.op \in {"render", "wait"} =>
       /\ pc[ret.by] = "idle"
       /\ (ret.arg = <<0>> => ret.kind = "ok" /\ ret.val = <<>>)
       /\ (ret.arg # <<0>> => ret.kind = "err" /\ ret.val = ret.arg)

\* A render has returned the failure -2 the driver reported.
C5_Witness == ret.op = "render" /\ ret.arg = <<-2>> /\ ret.kind = "err"

\* C6: set_brightness(c, v) followed by brightness(c) on the same record, with
\* no other set_brightness(c, _) in between, returns v.  In steps:
\* set_brightness(c, v) leaves v in the brightness of channel c; a step that
\* changes the brightness of a channel is a set_brightness of that channel on
\* that record; and brightness(c) returns the brightness of channel c.
C6_BrightnessRoundTrip ==
  /\ [](ret.op = "set_brightness" =>
          channel[arc[ret.by]][ret.arg[1]].brightness = ret.arg[2])
  /\ [](ret.op = "brightness" =>
          /\ ret.kind = "u8"
          /\ ret.val = <<channel[arc[ret.by]][ret.arg[1]].brightness>>)
  /\ [][channel' # channel =>
          \A r \in Recs, c \in Chans :
            (strong[r] > 0 /\ channel'[r][c].brightness # channel[r][c].brightness)
              => (ret'.op = "set_brightness" /\ arc[ret'.by] = r /\ ret'.arg[1] = c)]_vars

\* brightness(c) has returned 0, which is not the brightness the record was
\* built with: a set_brightness(c, 0) came before it.
C6_Witness ==
  /\ ret.op = "brightness" /\ ret.val = <<0>>
  /\ channel[1][ret.arg[1]].brightness = 0
  /\ channel[1][1 - ret.arg[1]].brightness = DefaultBrightness

\* C7: channels() returns exactly the indices of the channels whose count is
\* > 0, in strictly ascending order, and changes no state; the counts being
\* those of construction, the result is the same after any sequence of calls.
C7_ChannelsActiveAscending ==
  /\ [](ret.op = "channels" =>
          /\ Ascending(ret.val)
          /\ Range(ret.val) = {c \in Chans : count0[arc[ret.by]][c] > 0})
  /\ [][ret'.op = "channels" =>
          UNCHANGED <<channel, mem, strong, view, finiCalls, arc>>]_vars

\* channels() has returned <<1>> after a brightness was set and a colour
\* was written.
C7_Witness ==
  /\ ret.op = "channels" /\ ret.kind = "vec" /\ ret.val = <<1>>
  /\ channel[1][1].brightness = 0
  /\ \E a \in Addrs : mem[a] = 1

\* C8: all handles obtained by cloning share one record: they point to the
\* same allocation, a brightness(c) through any handle returns the brightness
\* every live handle has for c, and a read of element i of a slice of
\* channel c returns the colour every live handle has at that element.
C8_ClonesShareRecord ==
  /\ \A h, g \in Handles : (Live(h) /\ Live(g)) => arc[h] = arc[g]
  /\ ret.op = "brightness" =>
       \A g \in Handles :
         Live(g) => ret.val = <<channel[arc[g]][ret.arg[1]].brightness>>
  /\ ret.op = "read" =>
       \A g \in Handles :
         Live(g) => ret.val = <<mem[Cell(arc[g], view[ret.by].chan, ret.arg[1])]>>

\* The clone has just written 1 to the one element of its leds_mut slice
\* while the original handle holds a leds slice of that element: the slices
\* start at the same address and the original's slice now shows the 1.
C8_Witness ==
  /\ ret.op = "write" /\ ret.by = 2 /\ ret.arg = <<0, 1>>
  /\ view[2].kind = "mut" /\ view[2].len = 1
  /\ view[1].kind = "shared" /\ view[1].len = 1
  /\ view[1].chan = view[2].chan /\ view[1].ptr = view[2].ptr
  /\ mem[view[1].ptr] = 1
  /\ \A r \in Recs : finiCalls[r] = 0

\* C9: a slice made by leds(c) or leds_mut(c) has exactly count(c) elements,
\* and no channel's count ever differs from its count at construction.
C9_ViewLengthIsCount ==
  /\ \A h \in Handles :
       view[h].kind # "none" => view[h].len = count0[arc[h]][view[h].chan]
  /\ \A r \in Recs, c \in Chans : channel[r][c].count = count0[r][c]
  /\ \A r \in Recs : DOMAIN channel[r] = Chans

\* A handle holds a leds_mut slice of MaxLeds elements, after a brightness
\* was set and while another handle is inside render.
C9_Witness ==
  \E h, g \in Handles :
    /\ view[h].kind = "mut" /\ view[h].len = MaxLeds
    /\ pc[g] = "render"
    /\ \E c \in Chans : channel[arc[h]][c].brightness = 0

\* C10: a colour x written to leds_mut(c)[i] is what a later read of
\* leds(c)[i] yields when no other write to that element comes in between,
\* and the write changes no other element.  In steps: the write leaves x in
\* the cell of (c, i) and changes no other cell; the cells of distinct
\* elements are distinct; a step that changes the colour memory is a slice
\* write; and a read of element i of a slice of channel c returns its cell.
C10_WriteThenRead ==
  /\ [](\A r \in Recs : \A e, f \in Elems(r) :
          e # f => Cell(r, e[1], e[2]) # Cell(r, f[1], f[2]))
  /\ [](ret.op = "write" =>
          mem[Cell(arc[ret.by], view[ret.by].chan, ret.arg[1])] = ret.arg[2])
  /\ [](ret.op = "read" =>
          ret.val = <<mem[Cell(arc[ret.by], view[ret.by].chan, ret.arg[1])]>>)
  /\ [][mem' # mem =>
          /\ ret'.op = "write"
          /\ \A a \in Addrs :
               a # Cell(arc[ret'.by], view[ret'.by].chan, ret'.arg[1])
                 => mem'[a] = mem[a]]_vars

\* A read through a leds() slice has returned 1, a colour that was written
\* (the memory starts all 0), while the other element still is 0.
C10_Witness ==
  /\ ret.op = "read" /\ ret.val = <<1>>
  /\ view[ret.by].kind = "shared"
  /\ \E a, b \in Addrs : mem[a] = 1 /\ mem[b] = 0

\* C11: once every handle of a record has been destroyed (the strong count
\* is 0), ws2811_fini has been invoked on the record; every handle's
\* destruction went through the driver's finalize.  (Spec: no call faults.)
C11_FinalizedWhenAllDropped ==
  /\ \A r \in Recs :
       (strong[r] = 0 /\ \E h \in Handles : arc[h] = r /\ pc[h] = "dropped")
         => finiCalls[r] >= 1
  /\ \A h \in Handles : pc[h] = "dropped" => finiCalls[arc[h]] >= 1

\* Both handles of the record have been destroyed, the allocation is freed
\* and the finalize has been invoked.
C11_Witness ==
  /\ \A h \in Handles : pc[h] = "dropped" /\ arc[h] = 1
  /\ strong[1] = 0 /\ ~mutex[1].locked
  /\ finiCalls[1] >= 1

\* C12: the slices are not covered by the lock: the mutex is held exactly
\* while a call is inside its critical section, so a handle that holds a
\* slice and is between calls holds no guard, whatever the other handles do
\* (there are states with a slice being written during another handle's
\* render, and with two leds_mut slices of one channel).
C12_ViewsNotCoveredByLock ==
  /\ \A r \in Recs : mutex[r].locked <=> InSection(r, GuardSections) # {}
  /\ \A h \in Handles :
       (pc[h] = "idle" /\ view[h].kind # "none")
         => (mutex[arc[h]].locked => \E g \in Handles \ {h} : pc[g] \in GuardSections)

\* A handle has just written to its leds_mut slice of channel c while another
\* handle's ws2811_render is in flight on the same record.
C12_Witness ==
  \E h, g \in Handles :
    /\ h # g /\ arc[h] = arc[g]
    /\ ret.op = "write" /\ ret.by = h
    /\ view[h].kind = "mut" /\ view[h].len > 0
    /\ pc[g] = "render" /\ ncall[g] = 1 /\ mutex[arc[g]].locked

\* Two handles hold leds_mut slices of the same channel, over the same
\* memory, at once, and one of them has just been written.
C12_TwoMutViews ==
  \E h, g \in Handles :
    /\ h # g /\ arc[h] = arc[g]
    /\ view[h].kind = "mut" /\ view[g].kind = "mut"
    /\ view[h].chan = view[g].chan /\ view[h].ptr = view[g].ptr
    /\ view[h].len > 0
    /\ ret.op = "write" /\ ret.by = h

\* C13: every call holds the lock only for its own duration: when render,
\* wait, channels, brightness, set_brightness, leds or leds_mut leaves its
\* critical section the mutex is free, on the driver-failure path too.  Hence
\* (LiveSpec: driver calls return, the lock is scheduled fairly) a held lock is
\* always released, a call that took the lock completes, and a handle between
\* calls that finds the lock held gets it.
C13_LockReleasedAndProgress ==
  /\ [][\A h \in Handles :
          (pc[h] \in RecordSections /\ pc'[h] # pc[h])
            => (pc'[h] = "idle" /\ ~mutex'[arc[h]].locked)]_vars
  /\ [](ret.kind = "err" => ~mutex[arc[ret.by]].locked)
  /\ \A r \in Recs : mutex[r].locked ~> ~mutex[r].locked
  /\ \A h \in Handles : pc[h] \in GuardSections ~> pc[h] \in {"idle", "dropped"}
  /\ \A h \in Handles :
       (pc[h] = "idle" /\ view[h].kind # "mut" /\ mutex[arc[h]].locked)
         ~> pc[h] \in GuardSections

\* A wait has just returned the failure the driver reported and the mutex
\* is free, while the other handle of the record is live and between calls.
C13_Witness ==
  \E g \in Handles :
    /\ ret.op = "wait" /\ ret.kind = "err" /\ ret.by # g
    /\ pc[g] = "idle" /\ arc[g] = arc[ret.by]
    /\ ~mutex[arc[g]].locked

\* C14: brightness, set_brightness, leds and leds_mut called with a channel
\* index >= the length of the channel array end in a panic, never in a
\* returned value or slice; the call (its lock step and the panic) leaves
\* every channel's brightness and count and the buffers unchanged and makes
\* no driver call.
C14_BadIndexPanics ==
  /\ []((ret.op \in IndexedOps /\ ret.arg # <<>> /\ ret.arg[1] \notin Chans)
          => ret.kind = "panic")
  /\ [](\A h \in Handles : view[h].kind # "none" => view[h].chan \in Chans)
  /\ [][((ret'.kind = "panic" /\ ret'.arg # <<>>)
           \/ \E h \in Handles : pc[h] = "idle" /\ pc'[h] \in IndexedOps)
          => /\ UNCHANGED <<channel, mem, view, ncall, finiCalls, strong>>
             /\ \A h \in Handles : pc'[h] \in DriverSections \cup {"drop"} => pc'[h] = pc[h]]_vars

\* set_brightness has panicked on the index NumChannels, on a record whose
\* brightness had been set to 0 and whose buffer holds a written colour.
C14_Witness ==
  /\ ret.op = "set_brightness" /\ ret.kind = "panic" /\ ret.arg = <<NumChannels>>
  /\ pc[ret.by] = "idle"
  /\ \E c \in Chans : channel[arc[ret.by]][c].brightness = 0
  /\ \E a \in Addrs : mem[a] = 1

\* C15: set_brightness(c, v) changes only the brightness of channel c of its
\* record: the call (its lock step and its return) leaves the brightness of
\* every other channel, every count and buffer pointer, the buffers and the
\* slices unchanged, and invokes no driver operation (no ws2811_render,
\* ws2811_wait or ws2811_fini call is made by it).
C15_SetBrightnessFrame ==
  [][(ret'.op = "set_brightness"
        \/ \E h \in Handles : pc[h] = "idle" /\ pc'[h] = "set_brightness")
       => /\ UNCHANGED <<mem, view, ncall, finiCalls, strong, count0>>
          /\ \A h \in Handles : pc'[h] \in DriverSections \cup {"drop"} => pc'[h] = pc[h]
          /\ \A r \in Recs, c \in Chans :
               /\ channel'[r][c].count = channel[r][c].count
               /\ channel'[r][c].leds = channel[r][c].leds
               /\ (ret'.op # "set_brightness" \/ r # arc[ret'.by] \/ c # ret'.arg[1])
                    => channel'[r][c].brightness = channel[r][c].brightness]_vars

\* set_brightness(0, 0) has just returned on a record with two active
\* channels whose buffers hold a written colour: channel 0 has brightness 0,
\* channel 1 still has the brightness of construction.
C15_Witness ==
  /\ ret.op = "set_brightness" /\ ret.arg = <<0, 0>>
  /\ channel[arc[ret.by]][0].brightness = 0
  /\ channel[arc[ret.by]][1].brightness = DefaultBrightness
  /\ \A c \in Chans : channel[arc[ret.by]][c].count > 0
  /\ \E a \in Addrs : mem[a] = 1

\* C16: a panic on an out-of-range index inside brightness, set_brightness,
\* leds or leds_mut poisons the mutex of the record.  From then on the mutex
\* stays poisoned, no handle of the record enters a critical section (that of
\* drop included), every lock-taking call that ends on the record ends in a
\* panic, and no driver call is made on it: in particular no later drop
\* invokes ws2811_fini.
C16_PoisonedAfterFault ==
  /\ []((ret.kind = "panic" /\ ret.arg # <<>>) => mutex[arc[ret.by]].poisoned)
  /\ [](\A r \in Recs :
          mutex[r].poisoned => (~mutex[r].locked /\ InSection(r, GuardSections) = {}))
  /\ []((ret.op \in GuardSections /\ mutex[arc[ret.by]].poisoned) => ret.kind = "panic")
  /\ [][\A r \in Recs :
          mutex[r].poisoned
            => /\ mutex'[r].poisoned
               /\ finiCalls'[r] = finiCalls[r]
               /\ \A h \in Handles : arc[h] = r => ncall'[h] = ncall[h]]_vars

\* After an index panic both handles of the record have been destroyed,
\* the last one just now: its drop panicked at the lock, the allocation is
\* freed and ws2811_fini was never invoked.
C16_Witness ==
  /\ ret.op = "drop" /\ ret.kind = "panic"
  /\ \A h \in Handles : pc[h] = "dropped" /\ arc[h] = 1
  /\ mutex[1].poisoned /\ strong[1] = 0
  /\ finiCalls[1] = 0

====
